---- MODULE Spec2Model ----
(***************************************************************************)
(* Form backend (server.js): the submit handler                            *)
(*   POST /api/forms/:formId/submit                                        *)
(* with the in-memory rate limiter, the honeypot check, the submissions    *)
(* table and the console "email" notification; the handlers that read the  *)
(* submissions,                                                            *)
(*   GET /api/forms/:formId/submissions  and  GET /dashboard/:formId,      *)
(* and the handler that creates a form, POST /api/forms/create.            *)
(*                                                                         *)
(* Node runs one handler at a time; a handler gives up control only at an  *)
(* await. Each action below is the code one request runs between two       *)
(* awaits, so concurrent requests interleave at the awaits of the store    *)
(* (lines 238, 249) and of mockSendEmail (line 261). The await of line 232 *)
(* is on rateLimiter.consume, which has run to its end when it returns;    *)
(* the handler goes on in the same turn of the event loop.                 *)
(***************************************************************************)
EXTENDS Integers, Sequences, FiniteSets, TLC

---------------------------------------------------------------------------
(* Bounds of the model *)

\* submit requests and clock ticks in one behaviour under LimiterLoad (and
\* the requests of IsolationLoad)
MaxStarted == 3
MaxTicks == 3
\* submit requests in one behaviour under ClassifyLoad
MaxStartedClassify == 1
\* submit requests in one behaviour under FaultLoad and UnknownLoad
MaxStartedFault == 2
\* clock ticks in one behaviour under ClassifyLoad, FaultLoad and UnknownLoad
MaxTicksWide == 1
\* milliseconds the wall clock advances in one tick
TickMs == 500
\* largest RATE_LIMIT_POINTS the environment sets
MaxEnvPoints == 2
\* the values of RATE_LIMIT_DURATION (seconds) the environment sets
EnvDurations == {1}
\* submit requests, clock ticks and days in a tick under ReadLoad
MaxStartedRead == 2
MaxTicksRead == 1
TickDays == 8
\* submit requests in one behaviour under AuthLoad
MaxStartedAuth == 1
\* forms created and submit requests in one behaviour under CreateLoad
MaxCreated == 1
MaxStartedCreate == 1
\* submit requests, clock ticks and seconds in a tick under UnsetLoad
MaxStartedUnset == 11
MaxTicksUnset == 2
TickSecondsUnset == 30

(* Program constants *)
DefaultDuration == 60
DefaultPoints == 10
MsPerSecond == 1000
\* LIMIT 100, line 373
DashboardLimit == 100
\* datetime('now', '-7 days'), line 380
RecentDays == 7
SecondsPerDay == 86400

\* the connections: two requests are in flight at once
Slots == {1, 2}

---------------------------------------------------------------------------
(* JavaScript values of a request body: strings are sequences of           *)
(* characters; a missing property reads as undefined; a property that the  *)
(* body does not own is looked up on Object.prototype.                     *)

Str(s) == [t |-> "string", s |-> s]
Undefined == [t |-> "undefined", s |-> <<>>]
\* null as a field name, set apart from every string a client sends; as a
\* property key it reads "null"
Null == "<null>"
PropertyKey(k) == IF k = Null THEN "null" ELSE k
\* s.includes(c)
Includes(s, c) == \E i \in 1..Len(s) : s[i] = c
\* an inherited member of Object.prototype, e.g. body["constructor"]: a
\* function, whose toString() is its (non-blank) source text
InheritedFunction == [t |-> "function", s |-> <<"f">>]
ObjectPrototypeKeys == {"constructor", "toString", "valueOf"}

\* obj[key]
Get(obj, key) ==
    IF key \in DOMAIN obj THEN obj[key]
    ELSE IF key \in ObjectPrototypeKeys THEN InheritedFunction
    ELSE Undefined

\* the truthiness of v (the left operand of &&)
Truthy(v) ==
    CASE v.t = "undefined" -> FALSE
      [] v.t = "string" -> v.s # <<>>
      [] OTHER -> TRUE

\* v.toString()
JsToString(v) == v.s

\* the decimal text of a natural number, as an environment variable holds it
DigitChars == <<"0", "1", "2", "3", "4", "5", "6", "7", "8", "9">>
RECURSIVE Decimal(_)
Decimal(n) ==
    IF n < 10 THEN <<DigitChars[n + 1]>>
    ELSE Decimal(n \div 10) \o <<DigitChars[(n % 10) + 1]>>
\* NaN, apart from every integer parseInt returns
NaN == -1
DigitValues == [c \in {DigitChars[d] : d \in 1..10} |->
                   (CHOOSE d \in 1..10 : DigitChars[d] = c) - 1]
IsDigit(c) == c \in DOMAIN DigitValues
DigitValue(c) == DigitValues[c]
RECURSIVE ParseDigits(_, _)
ParseDigits(s, acc) ==
    IF s = <<>> \/ ~IsDigit(Head(s)) THEN acc
    ELSE ParseDigits(Tail(s), acc * 10 + DigitValue(Head(s)))
\* parseInt(v) of an unset variable or of a text: the leading digits, NaN
\* when there is none
ParseInt(v) ==
    IF v.t # "string" \/ v.s = <<>> \/ ~IsDigit(Head(v.s)) THEN NaN
    ELSE ParseDigits(v.s, 0)

\* String.prototype.trim
RECURSIVE Trim(_)
Trim(s) ==
    IF s = <<>> THEN s
    ELSE IF Head(s) = " " THEN Trim(Tail(s))
    ELSE IF s[Len(s)] = " " THEN Trim(SubSeq(s, 1, Len(s) - 1))
    ELSE s

\* the honeypot values a submitter sends
HoneypotValues == {<<>>, <<" ">>, <<"x">>, <<" ", "x">>}

\* request bodies: a name, and possibly the field "_website"
BodyWithout == "name" :> Str(<<"x">>)
BodyWith(v) == ("name" :> Str(<<"x">>)) @@ ("_website" :> Str(v))
Bodies == {BodyWithout} \cup {BodyWith(v) : v \in HoneypotValues}

---------------------------------------------------------------------------
(* The forms table and the keys a submitter may address *)

FormRow(hp, owner) == [honeypot_field |-> hp, owner_email |-> owner]
InitialForms ==
    ("F1" :> FormRow("_website", <<"a", "@", "x">>))
        @@ ("F2" :> FormRow("constructor", <<"b", "@", "x">>))
\* form identifiers in request paths; "ghost" is no form
Keys == {"F1", "F2", "ghost"}

---------------------------------------------------------------------------
(* What the environment offers in one behaviour: the form identifiers and   *)
(* bodies submitters send, whether the store and the mail channel may      *)
(* fail, and how many requests and clock ticks there are.                  *)
LimiterLoad ==
    [keys |-> {"F1"}, bodies |-> {BodyWithout}, faults |-> FALSE,
     started |-> MaxStarted, ticks |-> MaxTicks]
\* requests to an identifier that is no form
UnknownLoad ==
    [keys |-> {"ghost"}, bodies |-> {BodyWithout}, faults |-> TRUE,
     started |-> MaxStartedFault, ticks |-> MaxTicksWide]
ClassifyLoad ==
    [keys |-> {"F1", "F2"}, bodies |-> Bodies, faults |-> FALSE,
     started |-> MaxStartedClassify, ticks |-> MaxTicksWide]
FaultLoad ==
    [keys |-> {"F1"}, bodies |-> {BodyWithout, BodyWith(<<"x">>)}, faults |-> TRUE,
     started |-> MaxStartedFault, ticks |-> MaxTicksWide]
\* one form at one instant, the store and the mail channel failing or not
AnswerLoad ==
    [keys |-> {"F1"}, bodies |-> {BodyWithout}, faults |-> TRUE,
     started |-> MaxStartedFault, ticks |-> 0]
\* two forms under the limiter at one instant
IsolationLoad ==
    [keys |-> {"F1", "F2"}, bodies |-> {BodyWithout}, faults |-> FALSE,
     started |-> MaxStarted, ticks |-> 0]

\* tokens: the configured one and another
Secret == Str(<<"s">>)
Wrong == Str(<<"w">>)
\* the query parameter spam=true
SpamTrue == Str(<<"true">>)
SpamFalse == Str(<<"false">>)

\* submissions to two forms, one after the other and days apart, and a
\* reader holding the token
ReadLoad ==
    [keys |-> {"F1", "F2"}, bodies |-> {BodyWithout, BodyWith(<<"x">>)}, faults |-> FALSE,
     started |-> MaxStartedRead, ticks |-> MaxTicksRead, slots |-> {1},
     points |-> {Str(Decimal(MaxEnvPoints))},
     tickMs |-> TickDays * SecondsPerDay * MsPerSecond,
     readKeys |-> {"F1"}, spams |-> {Undefined, SpamTrue},
     envTokens |-> {Secret}, tokens |-> {Secret}]
\* DASHBOARD_AUTH_TOKEN set or unset, and readers with and without tokens
AuthLoad ==
    [keys |-> {"F1"}, bodies |-> {BodyWith(<<"x">>)}, faults |-> TRUE,
     started |-> MaxStartedAuth, ticks |-> 0,
     readKeys |-> {"F1", "ghost"}, spams |-> {SpamTrue},
     envTokens |-> {Undefined, Secret}, tokens |-> {Undefined, Secret, Wrong}]

\* bodies of POST /api/forms/create: owner_email and honeypot_field, each
\* present or not
\* a JSON number, e.g. {"owner_email": 7}
Number(digits) == [t |-> "number", s |-> digits]
OwnerEmails == {Str(<<"n">>), Str(<<"c", "@", "x">>), Number(<<"7">>)}
HoneypotNames == {"", Null}
CreateBodies ==
    {o @@ h : o \in {<<>>} \cup {"owner_email" :> e : e \in OwnerEmails},
              h \in {<<>>} \cup {"honeypot_field" :> n : n \in HoneypotNames}}
\* RATE_LIMIT_POINTS and RATE_LIMIT_DURATION unset: one form, one connection
UnsetLoad ==
    [keys |-> {"F1"}, bodies |-> {BodyWithout}, faults |-> FALSE,
     started |-> MaxStartedUnset, ticks |-> MaxTicksUnset, slots |-> {1},
     points |-> {Undefined}, durations |-> {Undefined},
     tickMs |-> TickSecondsUnset * MsPerSecond]
\* forms are created and then submitted to
CreateLoad ==
    [keys |-> {}, bodies |-> {BodyWithout, BodyWith(<<"x">>)}, faults |-> FALSE,
     started |-> MaxStartedCreate, ticks |-> 0, creates |-> MaxCreated]

\* what a load leaves out: every connection and every ceiling, the clock of
\* the limiter loads, no reader, no form created, the token configured
Plain ==
    [slots |-> Slots, points |-> {Str(Decimal(n)) : n \in 1..MaxEnvPoints},
     durations |-> {Str(Decimal(d)) : d \in EnvDurations},
     tickMs |-> TickMs, readKeys |-> {}, spams |-> {},
     envTokens |-> {Secret}, tokens |-> {}, creates |-> 0]
Loads ==
    {l @@ Plain : l \in {LimiterLoad, UnknownLoad, ClassifyLoad, FaultLoad, AnswerLoad,
                         IsolationLoad, ReadLoad, AuthLoad, CreateLoad, UnsetLoad}}
\* the outcomes of an operation that may fail
Outcomes(l) == IF l.faults THEN BOOLEAN ELSE {TRUE}

VARIABLES
    load,           \* the traffic of this behaviour
    clock,          \* ticks of the wall clock
    envPoints,      \* process.env.RATE_LIMIT_POINTS
    envDuration,    \* process.env.RATE_LIMIT_DURATION
    requests,       \* rateLimiter.requests: key -> admission timestamps
    forms,          \* table forms: id -> row
    submissions,    \* table submissions, in insertion order
    nextId,         \* identifiers generateUUID has handed out
    notifications,  \* the emails mockSendEmail has printed
    req,            \* per connection: the request being handled
    history,        \* every rateLimiter.consume call so far
    authToken,      \* process.env.DASHBOARD_AUTH_TOKEN
    rd,             \* the request of the reading connection
    cr              \* the request of the connection that creates forms

vars == <<load, clock, envPoints, envDuration, requests, forms, submissions,
          nextId, notifications, req, history, authToken, rd, cr>>
\* what the submit handler never touches
admin == <<authToken, rd, cr>>

\* Date.now()
Now == clock * load.tickMs

\* variant: an unset variable leaves a ceiling of one
OrDefaultOne(x, d) == IF x = NaN \/ x = 0 THEN 1 ELSE x
\* x || d for a parsed integer x (NaN and 0 are falsy)
OrDefault(x, d) == IF x = NaN \/ x = 0 THEN d ELSE x

\* line 92
WindowMs == OrDefault(ParseInt(envDuration), DefaultDuration) * MsPerSecond
\* line 93
MaxRequests == OrDefault(ParseInt(envPoints), DefaultPoints)

---------------------------------------------------------------------------
(* Responses *)

Res(status, success, text) == [status |-> status, success |-> success, text |-> text]
NoRes == Res(0, FALSE, "")
TooManyRequests == Res(429, FALSE, "Too many requests")
FormNotFound == Res(404, FALSE, "Form not found")
\* variant: the catch answers as the form lookup does
SubmissionFailedAsNotFound == Res(404, FALSE, "Submission failed")
\* line 277
SubmissionFailed == Res(500, FALSE, "Submission failed")
\* variant: the message tells the spam flag
SuccessResponseLeaky(isSpam) ==
    Res(200, TRUE, IF isSpam THEN "Submission flagged" ELSE "Submission received")
\* lines 270-273
SuccessResponse(isSpam) == Res(200, TRUE, "Submission received")

\* the reading connection: the request, and what the handler has read
NoRead ==
    [pc |-> "idle", kind |-> "", formId |-> "", token |-> Undefined, spam |-> Undefined,
     status |-> 0, rows |-> <<>>, total |-> 0, spamCount |-> 0, last7Days |-> 0]
\* the connection that creates forms
NoCreate == [pc |-> "idle", body |-> <<>>, id |-> "", status |-> 0]

Idle ==
    [pc |-> "idle", formId |-> "", body |-> BodyWithout, isSpam |-> FALSE,
     subId |-> 0, owner |-> <<>>, mail |-> "none", steps |-> {}, storeErr |-> FALSE,
     call |-> 0, res |-> NoRes]

Init ==
    /\ load \in Loads
    /\ clock = 0
    /\ envPoints \in load.points
    /\ envDuration \in load.durations
    /\ requests = <<>>
    /\ forms = InitialForms
    /\ submissions = <<>>
    /\ nextId = 0
    /\ notifications = <<>>
    /\ req = [r \in Slots |-> Idle]
    /\ history = <<>>
    /\ authToken \in load.envTokens
    /\ rd = NoRead
    /\ cr = NoCreate

---------------------------------------------------------------------------
(* The wall clock *)

Tick ==
    /\ clock < load.ticks
    /\ clock' = clock + 1
    /\ UNCHANGED <<admin, load, envPoints, envDuration, requests, forms, submissions,
                   nextId, notifications, req, history>>

---------------------------------------------------------------------------
(* rateLimiter.consume(key), lines 90-110. It holds no await: it runs to   *)
(* its end before any other handler runs.                                  *)

\* variant: a map that holds the entry of the key in hand only
WithKeyAlone(key) == [k \in {key} |-> IF key \in DOMAIN requests THEN requests[key] ELSE <<>>]
\* lines 95-99: the key's list, created empty when missing
WithKey(key) == IF key \in DOMAIN requests THEN requests ELSE requests @@ (key :> <<>>)

\* line 102
InWindow(time) == Now - time < WindowMs
\* variant: nothing is pruned
ValidRequestsNoPrune(key) == WithKey(key)[key]
ValidRequests(key) == SelectSeq(WithKey(key)[key], InWindow)

\* line 104
Denied(key) == Len(ValidRequests(key)) >= MaxRequests

\* variant: a write that loses the admissions read before it
RecordedStale(key) == [WithKey(key) EXCEPT ![key] = <<Now>>]
\* lines 108-109
Recorded(key) == [WithKey(key) EXCEPT ![key] = Append(ValidRequests(key), Now)]

\* variant: one list of admissions for all the keys
ConsumeGlobal(key) ==
    /\ requests' = IF Denied("*") THEN WithKey("*") ELSE Recorded("*")
    /\ history' = Append(history, [key |-> key, time |-> Now, allowed |-> ~Denied("*")])
\* variant: a denied call is recorded like an admitted one
ConsumeRecordingDenied(key) ==
    /\ requests' = Recorded(key)
    /\ history' = Append(history, [key |-> key, time |-> Now, allowed |-> ~Denied(key)])
\* variant: only the keys of existing forms are counted
ConsumeKnownOnly(key) ==
    IF key \in DOMAIN forms
      THEN /\ requests' = IF Denied(key) THEN WithKey(key) ELSE Recorded(key)
           /\ history' = Append(history, [key |-> key, time |-> Now, allowed |-> ~Denied(key)])
      ELSE /\ requests' = requests
           /\ history' = Append(history, [key |-> key, time |-> Now, allowed |-> TRUE])
Consume(key) ==
    /\ requests' = IF Denied(key) THEN WithKey(key) ELSE Recorded(key)
    /\ history' = Append(history, [key |-> key, time |-> Now, allowed |-> ~Denied(key)])

---------------------------------------------------------------------------
(* POST /api/forms/:formId/submit, lines 223-279 *)

\* a connection takes a new request once its last one is answered; the
\* lowest free connection is used
Free(r) == req[r].pc \in {"idle", "done"}
LowestFree(r) == Free(r) /\ \A q \in Slots : q < r => ~Free(q)

\* variant: the catch of line 233 does not return
RateLimitedFallsThrough(r, key, body) ==
    req' = [req EXCEPT ![r] = [Idle EXCEPT !.pc = "getForm", !.formId = key,
                                           !.body = body, !.call = Len(history) + 1,
                                           !.res = TooManyRequests]]
\* lines 233-235
RateLimited(r, key, body) ==
    req' = [req EXCEPT ![r] = [Idle EXCEPT !.pc = "done", !.formId = key,
                                           !.body = body, !.call = Len(history) + 1,
                                           !.res = TooManyRequests]]

\* line 238: the lookup is issued
Admitted(r, key, body) ==
    req' = [req EXCEPT ![r] = [Idle EXCEPT !.pc = "getForm", !.formId = key,
                                           !.body = body, !.call = Len(history) + 1]]

\* lines 225-238
Submit(r, key, body) ==
    /\ LowestFree(r)
    /\ Len(history) < load.started
    /\ Consume(key)
    /\ IF Denied(key) THEN RateLimited(r, key, body) ELSE Admitted(r, key, body)
    /\ UNCHANGED <<admin, load, clock, envPoints, envDuration, forms, submissions, nextId,
                   notifications>>

\* variant: the identifier handed out last, again
GenerateUUIDRepeating == IF nextId = 0 THEN nextId + 1 ELSE nextId
\* lines 169-172: crypto.randomUUID(), an identifier never handed out before
GenerateUUID == nextId + 1

\* line 244
HoneypotField(form) == form.honeypot_field

\* lines 244-245
IsSpam(form, body) ==
    LET v == Get(body, PropertyKey(HoneypotField(form)))
    IN  Truthy(v) /\ Trim(JsToString(v)) # <<>>

\* lines 238-249: the lookup answers; ok = FALSE is a store error
GetFormDone(r, ok) ==
    /\ req[r].pc = "getForm"
    /\ IF ~ok
         THEN /\ req' = [req EXCEPT ![r].pc = "done", ![r].storeErr = TRUE,
                                    ![r].res = SubmissionFailed]
              /\ UNCHANGED nextId
       ELSE IF req[r].formId \notin DOMAIN forms
         THEN /\ req' = [req EXCEPT ![r].pc = "done", ![r].res = FormNotFound]
              /\ UNCHANGED nextId
       ELSE /\ req' = [req EXCEPT ![r].pc = "insert",
                                  ![r].steps = @ \cup {"lookup"},
                                  ![r].owner = forms[req[r].formId].owner_email,
                                  ![r].isSpam = IsSpam(forms[req[r].formId], req[r].body),
                                  ![r].subId = GenerateUUID]
            /\ nextId' = nextId + 1
    /\ UNCHANGED <<admin, load, clock, envPoints, envDuration, requests, forms, submissions,
                   notifications, history>>

\* the row of lines 249-252; created_at is CURRENT_TIMESTAMP, in seconds
Row(r) ==
    [id |-> req[r].subId, form_id |-> req[r].formId, data |-> req[r].body,
     is_spam |-> IF req[r].isSpam THEN 1 ELSE 0,
     created_at |-> Now \div MsPerSecond]

\* PRIMARY KEY (id) and FOREIGN KEY (form_id), lines 68 and 75
ConstraintsHold(row) ==
    /\ \A i \in 1..Len(submissions) : submissions[i].id # row.id
    /\ row.form_id \in DOMAIN forms

\* lines 17-33 as called at lines 261-267: the email is printed, or the
\* call fails and its promise is rejected
Email(r) == [to |-> req[r].owner, isSpam |-> req[r].isSpam, sub |-> req[r].subId]
\* variant: no email for a submission flagged as spam
MockSendEmailHamOnly(r, sent) ==
    notifications' = IF sent /\ ~req[r].isSpam
                       THEN Append(notifications, Email(r)) ELSE notifications
MockSendEmail(r, sent) ==
    notifications' = IF sent THEN Append(notifications, Email(r)) ELSE notifications

\* variant: the email is sent whether or not the insert committed
InsertDoneNotifyFirst(r, ok, sent) ==
    /\ req[r].pc = "insert"
    /\ MockSendEmail(r, sent)
    /\ IF ok /\ ConstraintsHold(Row(r))
         THEN /\ submissions' = Append(submissions, Row(r))
              /\ req' = [req EXCEPT ![r].pc = "email",
                                    ![r].steps = @ \cup {"insert", "notify"},
                                    ![r].mail = IF sent THEN "fulfilled" ELSE "rejected"]
         ELSE /\ req' = [req EXCEPT ![r].pc = "done", ![r].storeErr = TRUE,
                                    ![r].steps = @ \cup {"notify"},
                                    ![r].res = SubmissionFailed]
              /\ UNCHANGED submissions
    /\ UNCHANGED <<admin, load, clock, envPoints, envDuration, requests, forms, nextId, history>>

\* variant: the insert replaces the rows of the table
InsertDoneReplacing(r, ok, sent) ==
    /\ req[r].pc = "insert"
    /\ IF ok /\ ConstraintsHold(Row(r))
         THEN /\ submissions' = <<Row(r)>>
              /\ MockSendEmail(r, sent)
              /\ req' = [req EXCEPT ![r].pc = "email",
                                    ![r].steps = @ \cup {"insert", "notify"},
                                    ![r].mail = IF sent THEN "fulfilled" ELSE "rejected"]
         ELSE /\ sent
              /\ req' = [req EXCEPT ![r].pc = "done", ![r].storeErr = TRUE,
                                    ![r].res = SubmissionFailed]
              /\ UNCHANGED <<submissions, notifications>>
    /\ UNCHANGED <<admin, load, clock, envPoints, envDuration, requests, forms, nextId, history>>

\* lines 249-267: the insert answers; ok = FALSE is a store error. After a
\* committed insert the handler calls mockSendEmail and awaits its promise.
InsertDone(r, ok, sent) ==
    /\ req[r].pc = "insert"
    /\ IF ok /\ ConstraintsHold(Row(r))
         THEN /\ submissions' = Append(submissions, Row(r))
              /\ MockSendEmail(r, sent)
              /\ req' = [req EXCEPT ![r].pc = "email",
                                    ![r].steps = @ \cup {"insert", "notify"},
                                    ![r].mail = IF sent THEN "fulfilled" ELSE "rejected"]
         ELSE /\ sent
              /\ req' = [req EXCEPT ![r].pc = "done", ![r].storeErr = TRUE,
                                    ![r].res = SubmissionFailed]
              /\ UNCHANGED <<submissions, notifications>>
    /\ UNCHANGED <<admin, load, clock, envPoints, envDuration, requests, forms, nextId, history>>

\* variant: the handler is never resumed after the await
EmailDoneNever(r) ==
    /\ req[r].pc = "email"
    /\ UNCHANGED vars
\* lines 261-278: the await of mockSendEmail ends
EmailDone(r) ==
    /\ req[r].pc = "email"
    /\ req' = [req EXCEPT ![r].pc = "done",
                          ![r].res = IF req[r].mail = "fulfilled"
                                       THEN SuccessResponse(req[r].isSpam)
                                       ELSE SubmissionFailed]
    /\ UNCHANGED <<admin, load, clock, envPoints, envDuration, requests, forms, submissions,
                   nextId, notifications, history>>

---------------------------------------------------------------------------
(* The queries of the reading handlers *)

\* created_at of a row inserted now, and the time of datetime('now')
NowSeconds == Now \div MsPerSecond

\* variant: the filter on is_spam is left out
SelectedWithSpam(formId, includeSpam) ==
    {submissions[i] : i \in {j \in 1..Len(submissions) : submissions[j].form_id = formId}}
\* WHERE form_id = ? [AND is_spam = 0], lines 300-305
Selected(formId, includeSpam) ==
    {submissions[i] : i \in {j \in 1..Len(submissions) :
                                /\ submissions[j].form_id = formId
                                /\ includeSpam \/ submissions[j].is_spam = 0}}

\* ORDER BY created_at DESC, lines 307 and 373: the rows of S, later
\* created_at first; SQL leaves the order of rows with equal created_at to
\* the query plan
Orderings(S) ==
    {seq \in [1..Cardinality(S) -> S] :
        /\ \A i, j \in 1..Cardinality(S) : i # j => seq[i] # seq[j]
        /\ \A i, j \in 1..Cardinality(S) :
               i < j => seq[i].created_at >= seq[j].created_at}

\* LIMIT n
Take(seq, n) == SubSeq(seq, 1, IF Len(seq) < n THEN Len(seq) ELSE n)

\* lines 312-316: is_spam becomes a boolean; data is the object its JSON
\* text denotes
Parsed(row) == [row EXCEPT !.is_spam = (row.is_spam = 1)]

\* line 377
TotalCount(formId) ==
    Cardinality({i \in 1..Len(submissions) : submissions[i].form_id = formId})
\* variant: the spam of every form
SpamCountAllForms(formId) ==
    Cardinality({i \in 1..Len(submissions) : submissions[i].is_spam = 1})
\* line 378
SpamCount(formId) ==
    Cardinality({i \in 1..Len(submissions) :
                    submissions[i].form_id = formId /\ submissions[i].is_spam = 1})
\* lines 379-382
Last7Days(formId) ==
    Cardinality({i \in 1..Len(submissions) :
                    /\ submissions[i].form_id = formId
                    /\ submissions[i].created_at > NowSeconds - RecentDays * SecondsPerDay})

\* the reading connection takes a new request once its last one is answered
ReaderFree == rd.pc \in {"idle", "done"}
Asked(kind, formId, token, spam) ==
    [NoRead EXCEPT !.kind = kind, !.formId = formId, !.token = token, !.spam = spam]
\* lines 287-290 and 336-338
Unauthorized(token) == token # authToken
\* variant: a lookup that finds nothing is not told apart from one that finds the form
FormMissingNever(formId) == formId \notin DOMAIN forms /\ formId \in DOMAIN forms
\* lines 293-296 and 367-370: !form, the lookup by id found no row
FormMissing(formId) == formId \notin DOMAIN forms

---------------------------------------------------------------------------
(* GET /api/forms/:formId/submissions, lines 283-328 *)

\* line 285: spam = 'false' when the query has none; line 299
IncludeSpam(spam) == (IF spam = Undefined THEN SpamFalse ELSE spam) = SpamTrue

\* variant: the form is looked up before the token is checked
GetSubmissionsLookupFirst(formId, token, spam) ==
    /\ ReaderFree
    /\ rd' = IF FormMissing(formId)
               THEN [Asked("list", formId, token, spam) EXCEPT !.pc = "done", !.status = 404]
             ELSE IF Unauthorized(token)
               THEN [Asked("list", formId, token, spam) EXCEPT !.pc = "done", !.status = 401]
             ELSE [Asked("list", formId, token, spam) EXCEPT !.pc = "listForm"]
    /\ UNCHANGED <<load, clock, envPoints, envDuration, requests, forms, submissions,
                   nextId, notifications, req, history, authToken, cr>>
\* lines 284-293: the token check, then the form lookup is issued
GetSubmissions(formId, token, spam) ==
    /\ ReaderFree
    /\ rd' = IF Unauthorized(token)
               THEN [Asked("list", formId, token, spam) EXCEPT !.pc = "done", !.status = 401]
               ELSE [Asked("list", formId, token, spam) EXCEPT !.pc = "listForm"]
    /\ UNCHANGED <<load, clock, envPoints, envDuration, requests, forms, submissions,
                   nextId, notifications, req, history, authToken, cr>>

\* lines 293-309: the lookup answers; the SELECT is issued
ListFormDone(ok) ==
    /\ rd.pc = "listForm"
    /\ rd' = IF ~ok THEN [rd EXCEPT !.pc = "done", !.status = 500]
             ELSE IF FormMissing(rd.formId)
               THEN [rd EXCEPT !.pc = "done", !.status = 404]
             ELSE [rd EXCEPT !.pc = "listRows"]
    /\ UNCHANGED <<load, clock, envPoints, envDuration, requests, forms, submissions,
                   nextId, notifications, req, history, authToken, cr>>

\* lines 309-323: the SELECT answers
ListRowsDone(ok) ==
    /\ rd.pc = "listRows"
    /\ IF ~ok THEN rd' = [rd EXCEPT !.pc = "done", !.status = 500]
       ELSE \E seq \in Orderings(Selected(rd.formId, IncludeSpam(rd.spam))) :
                rd' = [rd EXCEPT !.pc = "done", !.status = 200,
                                 !.rows = [i \in 1..Len(seq) |-> Parsed(seq[i])]]
    /\ UNCHANGED <<load, clock, envPoints, envDuration, requests, forms, submissions,
                   nextId, notifications, req, history, authToken, cr>>

---------------------------------------------------------------------------
(* GET /dashboard/:formId, lines 332-485: five queries, each awaited *)

\* lines 333-367
Dashboard(formId, token) ==
    /\ ReaderFree
    /\ rd' = IF Unauthorized(token)
               THEN [Asked("dashboard", formId, token, Undefined)
                        EXCEPT !.pc = "done", !.status = 401]
               ELSE [Asked("dashboard", formId, token, Undefined) EXCEPT !.pc = "dashForm"]
    /\ UNCHANGED <<load, clock, envPoints, envDuration, requests, forms, submissions,
                   nextId, notifications, req, history, authToken, cr>>

\* the answer of one of the queries: a store error ends with 500
DashboardStep(pc, ok, next) ==
    /\ rd.pc = pc
    /\ rd' = IF ok THEN next ELSE [rd EXCEPT !.pc = "done", !.status = 500]
    /\ UNCHANGED <<load, clock, envPoints, envDuration, requests, forms, submissions,
                   nextId, notifications, req, history, authToken, cr>>

\* lines 367-372
DashFormDone(ok) ==
    DashboardStep("dashForm", ok,
                  IF FormMissing(rd.formId)
                    THEN [rd EXCEPT !.pc = "done", !.status = 404]
                    ELSE [rd EXCEPT !.pc = "dashRows"])
\* lines 372-377
DashRowsDone(ok) ==
    /\ rd.pc = "dashRows"
    /\ \E seq \in Orderings(Selected(rd.formId, TRUE)) :
           DashboardStep("dashRows", ok,
                         [rd EXCEPT !.pc = "dashTotal", !.rows = Take(seq, DashboardLimit)])
\* lines 377-378
DashTotalDone(ok) ==
    DashboardStep("dashTotal", ok,
                  [rd EXCEPT !.pc = "dashSpam", !.total = TotalCount(rd.formId)])
\* lines 378-379
DashSpamDone(ok) ==
    DashboardStep("dashSpam", ok,
                  [rd EXCEPT !.pc = "dashRecent", !.spamCount = SpamCount(rd.formId)])
\* lines 379-481
DashRecentDone(ok) ==
    DashboardStep("dashRecent", ok,
                  [rd EXCEPT !.pc = "done", !.status = 200,
                             !.last7Days = Last7Days(rd.formId)])

---------------------------------------------------------------------------
(* POST /api/forms/create, lines 175-220 *)

\* the identifier of a created form
FormId(n) == "U" \o ToString(n)
Created == DOMAIN forms \ DOMAIN InitialForms

\* line 177: honeypot_field = '_website' when the body has none
HoneypotOf(body) ==
    IF "honeypot_field" \in DOMAIN body THEN body["honeypot_field"] ELSE "_website"
\* line 179: owner_email.includes is not a function unless owner_email is a
\* string; the call then throws a TypeError
IncludesThrows(body) ==
    LET owner_email == Get(body, "owner_email")
    IN  Truthy(owner_email) /\ owner_email.t # "string"
\* line 179
ValidOwner(body) ==
    LET owner_email == Get(body, "owner_email")
    IN  Truthy(owner_email) /\ Includes(owner_email.s, "@")

\* lines 176-188: the body is checked; the INSERT is issued
CreateForm(body) ==
    /\ cr.pc \in {"idle", "done"}
    /\ Cardinality(Created) < load.creates
    /\ IF IncludesThrows(body)
         THEN /\ cr' = [NoCreate EXCEPT !.pc = "done", !.body = body, !.status = 500]
              /\ UNCHANGED nextId
       ELSE IF ~ValidOwner(body)
         THEN /\ cr' = [NoCreate EXCEPT !.pc = "done", !.body = body, !.status = 400]
              /\ UNCHANGED nextId
         ELSE /\ cr' = [NoCreate EXCEPT !.pc = "insert", !.body = body,
                                        !.id = FormId(GenerateUUID)]
              /\ nextId' = nextId + 1
    /\ UNCHANGED <<load, clock, envPoints, envDuration, requests, forms, submissions,
                   notifications, req, history, authToken, rd>>

\* lines 184-190: the INSERT answers; the form is read back
CreateInsertDone(ok) ==
    /\ cr.pc = "insert"
    /\ IF ok /\ cr.id \notin DOMAIN forms
         THEN /\ forms' = forms @@ (cr.id :> FormRow(HoneypotOf(cr.body),
                                                     cr.body["owner_email"].s))
              /\ cr' = [cr EXCEPT !.pc = "get"]
         ELSE /\ cr' = [cr EXCEPT !.pc = "done", !.status = 500]
              /\ UNCHANGED forms
    /\ UNCHANGED <<load, clock, envPoints, envDuration, requests, submissions, nextId,
                   notifications, req, history, authToken, rd>>

\* lines 189-219
CreateGetDone(ok) ==
    /\ cr.pc = "get"
    /\ cr' = [cr EXCEPT !.pc = "done", !.status = IF ok THEN 201 ELSE 500]
    /\ UNCHANGED <<load, clock, envPoints, envDuration, requests, forms, submissions,
                   nextId, notifications, req, history, authToken, rd>>

---------------------------------------------------------------------------
Next ==
    \/ Tick
    \/ \E r \in load.slots, key \in load.keys \cup Created, body \in load.bodies :
           Submit(r, key, body)
    \/ \E r \in Slots, ok \in Outcomes(load) : GetFormDone(r, ok)
    \/ \E r \in Slots, ok \in Outcomes(load), sent \in Outcomes(load) : InsertDone(r, ok, sent)
    \/ \E r \in Slots : EmailDone(r)
    \/ \E formId \in load.readKeys, token \in load.tokens, spam \in load.spams :
           GetSubmissions(formId, token, spam)
    \/ \E ok \in Outcomes(load) : ListFormDone(ok)
    \/ \E ok \in Outcomes(load) : ListRowsDone(ok)
    \/ \E formId \in load.readKeys, token \in load.tokens : Dashboard(formId, token)
    \/ \E ok \in Outcomes(load) : DashFormDone(ok)
    \/ \E ok \in Outcomes(load) : DashRowsDone(ok)
    \/ \E ok \in Outcomes(load) : DashTotalDone(ok)
    \/ \E ok \in Outcomes(load) : DashSpamDone(ok)
    \/ \E ok \in Outcomes(load) : DashRecentDone(ok)
    \/ \E body \in CreateBodies : CreateForm(body)
    \/ \E ok \in Outcomes(load) : CreateInsertDone(ok)
    \/ \E ok \in Outcomes(load) : CreateGetDone(ok)

Spec == Init /\ [][Next]_vars

\* what the event loop owes a submit request in flight: the callback of the
\* store and the settling of mockSendEmail's promise arrive, and the handler
\* is resumed
Resume(r) ==
    \/ \E ok \in Outcomes(load) : GetFormDone(r, ok)
    \/ \E ok \in Outcomes(load), sent \in Outcomes(load) : InsertDone(r, ok, sent)
    \/ EmailDone(r)
\* the submit handler alone, under the loads that offer it every outcome
SubmitInit == Init /\ load \in {l @@ Plain : l \in {UnknownLoad, AnswerLoad, IsolationLoad}}
SubmitNext ==
    \/ Tick
    \/ \E r \in load.slots, key \in load.keys, body \in load.bodies : Submit(r, key, body)
    \/ \E r \in Slots : Resume(r)
FairSpec == SubmitInit /\ [][SubmitNext]_vars /\ \A r \in Slots : WF_vars(Resume(r))

TypeOK ==
    /\ clock \in 0..load.ticks
    /\ envPoints \in load.points /\ envDuration \in load.durations
    /\ MaxRequests > 0 /\ WindowMs > 0
    /\ Len(history) <= load.started
    /\ \A r \in Slots : req[r].pc \in {"idle", "getForm", "insert", "email", "done"}
    /\ rd.status \in {0, 200, 401, 404, 500}
    /\ cr.status \in {0, 201, 400, 500}
    /\ Cardinality(Created) <= load.creates

---------------------------------------------------------------------------
(* Properties *)

\* the slots that hold a request (in flight or answered)
Active == {r \in Slots : req[r].pc # "idle"}
InFlight(r) == req[r].pc \in {"getForm", "insert", "email"}
Status(r) == req[r].res.status
\* the rows a request has inserted, and the emails printed for it
RowsOf(id) == {i \in 1..Len(submissions) : submissions[i].id = id}
MailsOf(id) == {i \in 1..Len(notifications) : notifications[i].sub = id}

\* the admitted consume calls for the key of call i that precede call i
Earlier(i) ==
    {j \in 1..(i - 1) : history[j].key = history[i].key /\ history[j].allowed}
Age(i, j) == history[i].time - history[j].time

\* C1: a submit request is admitted whenever fewer than maxPoints earlier
\* admitted requests of its key lie at most the window back, it is rejected
\* with 429 whenever maxPoints earlier admitted requests of its key lie less
\* than the window back, and requests more than the window back never count.
C1_WindowAdmission ==
    /\ \A i \in 1..Len(history) :
         /\ Cardinality({j \in Earlier(i) : Age(i, j) <= WindowMs}) < MaxRequests
              => history[i].allowed
         /\ Cardinality({j \in Earlier(i) : Age(i, j) < WindowMs}) >= MaxRequests
              => ~history[i].allowed
    /\ \A r \in Active : (req[r].res = TooManyRequests) <=> ~history[req[r].call].allowed

\* maxPoints admissions, then a rejection in the same window, then an
\* admission more than the window after the oldest of them
C1_Witness ==
    \E i, j, l \in 1..Len(history) :
        /\ i < j /\ j < l
        /\ history[i].key = history[j].key /\ history[j].key = history[l].key
        /\ Cardinality({m \in Earlier(j) : Age(j, m) < WindowMs}) = MaxRequests
        /\ i \in Earlier(j) /\ Age(j, i) < WindowMs
        /\ ~history[j].allowed
        /\ history[l].allowed
        /\ Age(l, i) > WindowMs

\* a denied request, in every state
C2_DeniedState ==
    \A r \in Active :
        ~history[req[r].call].allowed =>
            /\ req[r].pc = "done"
            /\ req[r].res = TooManyRequests
            /\ req[r].steps = {}
            /\ RowsOf(req[r].subId) = {} /\ MailsOf(req[r].subId) = {}
\* the step that answers a request with 429
C2_DeniedStep ==
    \A r \in Slots :
        (req'[r] # req[r] /\ req'[r].res = TooManyRequests) =>
            /\ submissions' = submissions
            /\ notifications' = notifications
\* C2: a request the rate limiter denies ends with 429 at once; it has used
\* no form lookup, inserted no row and attempted no notification, and the
\* step that answers 429 leaves the submissions table and the notification
\* log as they were.
C2_RateLimitedTouchesNothing == []C2_DeniedState /\ [][C2_DeniedStep]_vars

\* a request answered 429 while rows and emails exist
C2_Witness ==
    \E r \in Active :
        /\ req[r].res = TooManyRequests
        /\ Len(submissions) > 0
        /\ Len(notifications) > 0

\* C3: whatever the interleaving of the requests, the admissions of a key
\* whose timestamps lie in one window (from an admission up to, not
\* including, the window later) never number more than maxPoints.
C3_NeverOverAdmits ==
    \A i \in 1..Len(history) :
        history[i].allowed =>
            Cardinality({j \in 1..Len(history) :
                            /\ history[j].key = history[i].key
                            /\ history[j].allowed
                            /\ history[i].time <= history[j].time
                            /\ history[j].time < history[i].time + WindowMs})
              <= MaxRequests

\* two requests for one key at the same instant, the first still in flight
\* and holding the last slot of the window, the second denied
C3_Witness ==
    \E r, q \in Active :
        /\ r # q
        /\ req[r].formId = req[q].formId
        /\ InFlight(r)
        /\ history[req[r].call].allowed
        /\ history[req[r].call].time = history[req[q].call].time
        /\ Cardinality({j \in Earlier(req[q].call) : Age(req[q].call, j) < WindowMs})
             = MaxRequests
        /\ ~history[req[q].call].allowed

\* a string with a character that is not whitespace
HasNonWhitespace(s) == \E i \in 1..Len(s) : s[i] # " "
\* the submitted mapping holds the form's honeypot field with a value that
\* has a non-whitespace character
HoneypotFilled(row) ==
    LET hp == forms[row.form_id].honeypot_field
    IN  /\ hp \in DOMAIN row.data
        /\ row.data[hp].t = "string"
        /\ HasNonWhitespace(row.data[hp].s)

\* C4: every stored submission has spam flag true if and only if the
\* submitted mapping holds the form's honeypot field with a value that has
\* at least one non-whitespace character.
C4_SpamIffHoneypotFilled ==
    \A i \in 1..Len(submissions) :
        (submissions[i].is_spam = 1) <=> HoneypotFilled(submissions[i])

\* C4, for the forms whose honeypot field is no member of Object.prototype:
\* there the flag is exactly as C4 says
C4_OwnFieldForms ==
    \A i \in 1..Len(submissions) :
        forms[submissions[i].form_id].honeypot_field \notin ObjectPrototypeKeys =>
            ((submissions[i].is_spam = 1) <=> HoneypotFilled(submissions[i]))

\* C5: two submit requests to one form that both reach the success step get
\* the same status code and the same payload, whatever their spam flags.
C5_UniformSuccess ==
    \A r, q \in Active :
        (Status(r) = 200 /\ Status(q) = 200 /\ req[r].formId = req[q].formId)
            => req[r].res = req[q].res

\* two accepted submissions to one form, one stored as spam and one not
C5_Witness ==
    \E r, q \in Active :
        /\ Status(r) = 200 /\ Status(q) = 200
        /\ req[r].formId = req[q].formId
        /\ req[r].isSpam /\ ~req[q].isSpam
        /\ \E i \in RowsOf(req[r].subId) : submissions[i].is_spam = 1
        /\ \E i \in RowsOf(req[q].subId) : submissions[i].is_spam = 0

\* the admitted calls of the request's key, before it, less than the window back
Recent(r) == {j \in Earlier(req[r].call) : Age(req[r].call, j) < WindowMs}
Unknown(r) == req[r].formId \notin DOMAIN forms

\* a request to an identifier that is no form, in every state
C6_UnknownState ==
    /\ \A r \in Active :
         /\ req[r].res = FormNotFound =>
              /\ Unknown(r)
              /\ history[req[r].call].allowed
              /\ req[r].formId \in DOMAIN requests
              /\ req[r].steps = {}
              /\ RowsOf(req[r].subId) = {}
         /\ (Unknown(r) /\ Cardinality(Recent(r)) >= MaxRequests)
              => req[r].res = TooManyRequests
         /\ (Unknown(r) /\ req[r].pc = "done" /\ ~req[r].storeErr
                /\ history[req[r].call].allowed)
              => req[r].res = FormNotFound
    /\ \A i \in 1..Len(submissions) : submissions[i].form_id \in DOMAIN forms
\* the steps of such a request
C6_UnknownStep ==
    \A r \in Slots :
        /\ (req'[r] # req[r] /\ req'[r].res = FormNotFound)
             => (submissions' = submissions /\ notifications' = notifications)
        /\ (req'[r] # req[r] /\ req'[r].pc = "getForm")
             => /\ req'[r].formId \in DOMAIN requests'
                /\ \E i \in 1..Len(requests'[req'[r].formId]) :
                       requests'[req'[r].formId][i] = Now
\* C6: an admitted submit request to an identifier that is no form ends with
\* 404 and inserts nothing; the limiter has recorded it under that key, so
\* once maxPoints such requests lie in the window the next one is answered
\* 429, not 404.
C6_UnknownFormThrottled == []C6_UnknownState /\ [][C6_UnknownStep]_vars

\* a request to an unknown identifier answered 404, and a later one in the
\* same window answered 429
C6_Witness ==
    \E r, q \in Active :
        /\ Unknown(r) /\ req[q].formId = req[r].formId
        /\ req[r].res = FormNotFound
        /\ req[q].res = TooManyRequests
        /\ req[r].call \in Recent(q)

C8_HandlerNeverWaits ==
    \A r \in Active :
        ("notify" \in req[r].steps /\ req[r].res = NoRes) => req[r].pc # "email"

\* C9: a notification is attempted only for a submission whose insert has
\* committed: every printed email, and every request that has attempted
\* one, has its row in the table.
C9_PersistThenNotify ==
    /\ \A i \in 1..Len(notifications) : RowsOf(notifications[i].sub) # {}
    /\ \A r \in Active :
         "notify" \in req[r].steps
             => ("insert" \in req[r].steps /\ RowsOf(req[r].subId) # {})

\* an email printed for a stored row while another request's insert failed
C9_Witness ==
    /\ \E i \in 1..Len(notifications) : RowsOf(notifications[i].sub) # {}
    /\ \E r \in Active : req[r].storeErr /\ req[r].subId > 0

\* C10: a request whose form lookup or insert fails ends with 500, which is
\* neither 429 nor 404; it leaves no row and attempts no notification.
C10_StoreFailure ==
    \A r \in Active :
        req[r].storeErr =>
            /\ req[r].pc = "done"
            /\ Status(r) = 500
            /\ req[r].res \notin {TooManyRequests, FormNotFound}
            /\ req[r].steps \cap {"insert", "notify"} = {}
            /\ RowsOf(req[r].subId) = {}
            /\ MailsOf(req[r].subId) = {}

\* one request failed at the lookup and one at the insert
C10_Witness ==
    \E r, q \in Active :
        /\ req[r].storeErr /\ req[r].subId = 0
        /\ req[q].storeErr /\ req[q].subId > 0

\* the key of the consume call a step makes
Consumed == history'[Len(history')].key
\* a step, as rateLimiter.consume leaves the lists of the keys
C11_ConsumeStep ==
    /\ \A k \in DOMAIN requests :
         (Len(history') = Len(history) \/ Consumed # k)
             => (k \in DOMAIN requests' /\ requests'[k] = requests[k])
    /\ \A k \in DOMAIN requests' \ DOMAIN requests :
         Len(history') > Len(history) /\ Consumed = k
\* every consume call, as decided from the admissions of its own key
C11_OwnKeyDecides ==
    \A i \in 1..Len(history) :
        history[i].allowed
            <=> Cardinality({j \in Earlier(i) : Age(i, j) < WindowMs}) < MaxRequests
\* C11: rateLimiter.consume(k) reads and writes only the list of key k: a
\* consume call leaves the list of every other key as it was, and a call is
\* admitted exactly when fewer than maxPoints earlier admissions of its own
\* key lie in the window, whatever was requested of other forms.
C11_PerFormIsolation == []C11_OwnKeyDecides /\ [][C11_ConsumeStep]_vars

\* form F1 has used up its ceiling and is denied; a request to form F2 made
\* after that at the same instant is admitted
C11_Witness ==
    \E i, j \in 1..Len(history) :
        /\ i < j
        /\ history[i].key = "F1" /\ history[j].key = "F2"
        /\ {"F1", "F2"} \subseteq DOMAIN forms
        /\ ~history[i].allowed
        /\ Cardinality({m \in Earlier(i) : Age(i, m) < WindowMs}) = MaxRequests
        /\ history[j].time = history[i].time
        /\ history[j].allowed

\* the stored rows of a form, and those of them with the spam flag false
StoredOf(f) == {submissions[i] : i \in {j \in 1..Len(submissions) : submissions[j].form_id = f}}
HamOf(f) == {row \in StoredOf(f) : row.is_spam = 0}
\* the identifiers of a set of rows and of a listing
IdsOf(S) == {row.id : row \in S}
Listed(l) == {l.rows[i].id : i \in 1..Len(l.rows)}

\* what the query selects in a store state
C12_Selection ==
    \A f \in DOMAIN forms :
        /\ Selected(f, FALSE) = HamOf(f)
        /\ Selected(f, TRUE) = StoredOf(f)
        /\ Selected(f, FALSE) \subseteq Selected(f, TRUE)
\* the step that answers a listing
C12_ListingStep ==
    (rd' # rd /\ rd'.kind = "list" /\ rd'.status = 200) =>
        /\ Cardinality(Listed(rd')) = Len(rd'.rows)
        /\ Listed(rd') = IF IncludeSpam(rd'.spam) THEN IdsOf(StoredOf(rd'.formId))
                                                 ELSE IdsOf(HamOf(rd'.formId))
        /\ \A i \in 1..Len(rd'.rows) :
              /\ rd'.rows[i].form_id = rd'.formId
              /\ IncludeSpam(rd'.spam) \/ ~rd'.rows[i].is_spam
              /\ \E row \in StoredOf(rd'.formId) : rd'.rows[i] = Parsed(row)
\* C12: in every store state the listing query of a form selects, with
\* includeSpam false, exactly the form's rows whose spam flag is false and,
\* with includeSpam true, every row of the form, a superset of the former;
\* each answered listing holds exactly those rows, once each, and no row of
\* another form.
C12_ListingByFlag == []C12_Selection /\ [][C12_ListingStep]_vars

\* form F1 holds a spam row and a row that is none; the listing without
\* spam has answered the one row that is none
C12_Witness ==
    /\ rd.kind = "list" /\ rd.status = 200 /\ rd.formId = "F1"
    /\ ~IncludeSpam(rd.spam)
    /\ StoredOf("F1") # HamOf("F1")
    /\ HamOf("F1") # {}
    /\ Listed(rd) = IdsOf(HamOf("F1"))

\* the place of a stored row in the order of insertion
Position(id) == CHOOSE k \in 1..Len(submissions) : submissions[k].id = id

\* C13: an answered listing is ordered by created_at descending, and two of
\* its rows with the same created_at stand in reverse insertion order, the
\* one inserted later first.
C13_NewestFirstTiesReversed ==
    (rd.kind = "list" /\ rd.status = 200) =>
        \A i, j \in 1..Len(rd.rows) :
            i < j =>
                /\ rd.rows[i].created_at >= rd.rows[j].created_at
                /\ rd.rows[i].created_at = rd.rows[j].created_at
                     => Position(rd.rows[i].id) > Position(rd.rows[j].id)

\* C13, the part that ORDER BY created_at DESC gives: no listed row stands
\* before a row created later
C13_NewestFirst ==
    (rd.kind = "list" /\ rd.status = 200) =>
        \A i, j \in 1..Len(rd.rows) :
            i < j => rd.rows[i].created_at >= rd.rows[j].created_at

\* C14: in every store state and for every form, the total count of the
\* form's submissions equals its spam count plus the count of its
\* submissions whose spam flag is false, and every stored submission has the
\* spam flag 1 or 0.
C14_StatsPartition ==
    /\ \A f \in DOMAIN forms \cup Keys :
         TotalCount(f) = SpamCount(f) + Cardinality(Selected(f, FALSE))
    /\ \A i \in 1..Len(submissions) : submissions[i].is_spam \in {0, 1}

\* the dashboard has counted a form that holds a spam row and a row that is
\* none, beside a spam row of another form or alone
C14_Witness ==
    /\ rd.kind = "dashboard" /\ rd.status = 200
    /\ rd.total = 2 /\ rd.spamCount = 1
    /\ TotalCount(rd.formId) = 2 /\ SpamCount(rd.formId) = 1

\* the two counts the dashboard shows are read by two queries
C14_ShownCountsOfOneState ==
    (rd.kind = "dashboard" /\ rd.status = 200) => rd.total >= rd.spamCount

\* C15: the Last 7 Days count of an answered dashboard counts no
\* spam-flagged submission: it is at most the number of the form's
\* submissions whose spam flag is false.
C15_RecentCountsNoSpam ==
    (rd.kind = "dashboard" /\ rd.status = 200)
        => rd.last7Days <= Cardinality(HamOf(rd.formId))

\* the rows of a form created in the seven days before now
RecentOf(f) ==
    {row \in StoredOf(f) : row.created_at > NowSeconds - RecentDays * SecondsPerDay}
\* C15, as the query of lines 379-382 counts: every row of the form created
\* in the trailing seven days, whatever its spam flag
C15_RecentOfAnyFlag ==
    [][(rd' # rd /\ rd'.kind = "dashboard" /\ rd'.status = 200)
           => rd'.last7Days = Cardinality(RecentOf(rd'.formId))]_vars

\* the emails of the stored rows: at most one for a row, addressed to the
\* owner of the row's form and telling the row's flag; exactly one where the
\* mail channel does not fail
C16_OneEmailEach ==
    \A i \in 1..Len(submissions) :
        LET row == submissions[i]
        IN  /\ Cardinality(MailsOf(row.id)) <= 1
            /\ ~load.faults => Cardinality(MailsOf(row.id)) = 1
            /\ \A m \in MailsOf(row.id) :
                  /\ notifications[m].to = forms[row.form_id].owner_email
                  /\ notifications[m].isSpam = (row.is_spam = 1)
\* a row stored by a step
Stores(r) ==
    /\ Len(submissions') = Len(submissions) + 1
    /\ submissions'[Len(submissions')].id = req[r].subId
    /\ req[r].pc = "insert"
\* a notification attempted by a step
Attempts(r) ==
    /\ req[r].pc = "insert"
    /\ "notify" \in req'[r].steps /\ "notify" \notin req[r].steps
    /\ req'[r].mail \in {"fulfilled", "rejected"}
    /\ req'[r].owner = forms[req[r].formId].owner_email
\* the step that stores a row is the one step that attempts its notification
C16_AttemptStep ==
    /\ \A r \in Slots : Stores(r) <=> Attempts(r)
    /\ submissions' # submissions => \E r \in Slots : Stores(r)
    /\ notifications' # notifications =>
           \E r \in Slots :
               /\ Stores(r)
               /\ notifications' = Append(notifications, Email(r))
\* C16: every stored submission gets exactly one notification attempt,
\* made in the step that stores it and addressed to the owner of its form,
\* whether its spam flag is true or false; no other step attempts or prints
\* a notification.
C16_NotifiedOnce == []C16_OneEmailEach /\ [][C16_AttemptStep]_vars

\* a stored spam row and a stored row that is none, each with its one email
\* to the owner of its form
C16_Witness ==
    \E i, j \in 1..Len(submissions) :
        /\ submissions[i].is_spam = 1 /\ submissions[j].is_spam = 0
        /\ \A k \in {i, j} :
              /\ Cardinality(MailsOf(submissions[k].id)) = 1
              /\ \A m \in MailsOf(submissions[k].id) :
                    notifications[m].to = forms[submissions[k].form_id].owner_email

\* a request to a reading handler that carries no token, or one that is not
\* the configured one
Tokenless == rd.pc # "idle" /\ (rd.token = Undefined \/ rd.token # authToken)
\* answered 401 at once, with no row and no count
Refused ==
    /\ rd.pc = "done" /\ rd.status = 401
    /\ rd.rows = <<>>
    /\ rd.total = 0 /\ rd.spamCount = 0 /\ rd.last7Days = 0

\* C17: whether DASHBOARD_AUTH_TOKEN is set or unset, a request to the
\* submissions API or to the dashboard that carries no token, or a token
\* other than the configured one, is answered 401 and given no submission
\* and no count.
C17_TokenRequired == Tokenless => Refused

\* C17, where DASHBOARD_AUTH_TOKEN is set
C17_TokenRequiredWhenSet == (authToken # Undefined /\ Tokenless) => Refused

\* a honeypot field name that is empty or null
EmptyName(n) == n \in {"", Null}

\* C18: the honeypot field name by which a request is classified is never
\* empty or null: for a form whose stored honeypot_field is empty or null
\* the name used is _website.
C18_HoneypotNameNeverEmpty ==
    \A r \in Active :
        "lookup" \in req[r].steps =>
            LET form == forms[req[r].formId]
            IN  /\ ~EmptyName(HoneypotField(form))
                /\ EmptyName(form.honeypot_field) => HoneypotField(form) = "_website"

\* C18, for a create request without honeypot_field: the form is stored with
\* the name _website
C18_DefaultWhenAbsent ==
    (cr.status = 201 /\ "honeypot_field" \notin DOMAIN cr.body)
        => forms[cr.id].honeypot_field = "_website"

\* the requests and their records: a request whose insert has succeeded has
\* exactly one record, with its form, its fields and its flag; a request
\* answered 200 is one of these; any other request has none
C19_OneRecordEach ==
    \A r \in Active :
        /\ "insert" \in req[r].steps =>
              /\ Cardinality(RowsOf(req[r].subId)) = 1
              /\ \A i \in RowsOf(req[r].subId) :
                    /\ submissions[i].form_id = req[r].formId
                    /\ submissions[i].data = req[r].body
                    /\ submissions[i].is_spam = IF req[r].isSpam THEN 1 ELSE 0
        /\ Status(r) = 200 => "insert" \in req[r].steps
        /\ "insert" \notin req[r].steps => RowsOf(req[r].subId) = {}
\* a step and the table: the records it finds stay as they are, and it adds
\* at most one, the record of the request whose insert succeeds in it
C19_AppendOnly ==
    /\ Len(submissions') \in {Len(submissions), Len(submissions) + 1}
    /\ SubSeq(submissions', 1, Len(submissions)) = submissions
    /\ \A r \in Slots :
         (req[r].pc = "insert" /\ req'[r].pc = "email")
             <=> (Stores(r) /\ submissions' = Append(submissions, Row(r)))
    /\ submissions' # submissions => \E r \in Slots : Stores(r)
\* C19: each submit request that is admitted, finds its form and whose
\* insert succeeds creates exactly one submission record; no step of the
\* service changes the form identifier, the fields, the spam flag or the
\* creation timestamp of a stored record, and none deletes it.
C19_CreatedOnceThenKept == []C19_OneRecordEach /\ [][C19_AppendOnly]_vars

\* a request answered 200 whose record is the first of the table, with a
\* record of another request stored after it
C19_Witness ==
    \E r \in Active :
        /\ Status(r) = 200
        /\ RowsOf(req[r].subId) = {1}
        /\ Len(submissions) >= 2

\* C20: in every store state, however the concurrent submit requests
\* interleave, no two stored submissions share an identifier and every
\* stored submission references a form of the forms table; the identifiers
\* the requests hold are all different, and one whose insert is still
\* awaited is not in the table.
C20_UniqueAndReferenced ==
    /\ \A i, j \in 1..Len(submissions) :
         i # j => submissions[i].id # submissions[j].id
    /\ \A i \in 1..Len(submissions) : submissions[i].form_id \in DOMAIN forms
    /\ \A r, q \in Slots :
         (r # q /\ req[r].subId > 0 /\ req[q].subId > 0) => req[r].subId # req[q].subId
    /\ \A r \in Slots : req[r].pc = "insert" => RowsOf(req[r].subId) = {}

\* two requests in flight together whose inserts committed in the reverse
\* of the order in which they took their identifiers
C20_Witness ==
    /\ Len(submissions) >= 2
    /\ submissions[1].id > submissions[2].id
    /\ submissions[1].form_id = submissions[2].form_id

\* the four outcomes of a submit request
Outcome == {200, 429, 404, 500}
\* a request and its response: answered exactly when it has ended, with one
\* of the four outcomes; an ended request that was admitted, found its form
\* and met no failing store or mail call has gone through the lookup, the
\* insert and the notification
C21_Answered ==
    \A r \in Active :
        /\ req[r].pc = "done" <=> req[r].res # NoRes
        /\ req[r].res # NoRes => Status(r) \in Outcome
        /\ req[r].pc \in {"insert", "email"} => history[req[r].call].allowed
        /\ req[r].pc = "email" => req[r].steps = {"lookup", "insert", "notify"}
        /\ Status(r) = 200 => req[r].steps = {"lookup", "insert", "notify"}
        /\ (req[r].pc = "done" /\ history[req[r].call].allowed /\ ~Unknown(r)
               /\ ~req[r].storeErr)
             => req[r].steps = {"lookup", "insert", "notify"}
\* no step changes a request that has its response
C21_AnsweredOnce ==
    \A r \in Slots :
        (req[r].res # NoRes /\ req'[r].call = req[r].call) => req'[r] = req[r]
\* C21: every submit request gets exactly one response, one of 200, 429,
\* 404 and 500: a request in flight is eventually answered, and an answered
\* request is never answered again; an admitted request whose form exists
\* goes on to the insert and, when the insert succeeds, to the notification
\* attempt, and no request is left midway.
C21_EveryRequestAnswered ==
    /\ []C21_Answered
    /\ [][C21_AnsweredOnce]_vars
    /\ \A r \in Slots : InFlight(r) ~> (req[r].pc = "done")

\* one request answered 200 after lookup, insert and notification, and one
\* answered 429
C21_Witness ==
    \E r, q \in Active :
        /\ Status(r) = 200 /\ req[r].steps = {"lookup", "insert", "notify"}
        /\ Status(q) = 429

\* a read request that passed the token check and names a form that is not
\* in the forms table
ReadsUnknown == rd.pc # "idle" /\ ~Unauthorized(rd.token) /\ rd.formId \notin DOMAIN forms

C22_UnknownState ==
    ReadsUnknown =>
        /\ rd.pc \in {"listForm", "dashForm", "done"}
        /\ rd.pc = "done" => rd.status \in {404, 500}
        /\ rd.rows = <<>>
        /\ rd.total = 0 /\ rd.spamCount = 0 /\ rd.last7Days = 0

\* the lookup is the only query made, and a lookup the store answers ends in 404
C22_UnknownStep ==
    (ReadsUnknown /\ rd.pc # "done" /\ rd' # rd) =>
        /\ rd'.pc = "done"
        /\ rd'.status = 404 \/ (load.faults /\ rd'.status = 500)

\* C22: listing the submissions of, or requesting the dashboard of, a form
\* identifier that does not exist, with a valid token, ends with 404 (500
\* if the lookup itself fails) and never with a listing, empty or not, or
\* with counts.
C22_UnknownFormNotFound == []C22_UnknownState /\ [][C22_UnknownStep]_vars

C22_Witness ==
    /\ rd.pc = "done" /\ rd.kind = "list" /\ rd.formId = "ghost"
    /\ authToken = Secret /\ rd.token = Secret
    /\ rd.status = 404

\* the owner_email of the create request in hand is missing or has no '@'
NoOwner == cr.pc # "idle" /\ ~ValidOwner(cr.body)

\* such a request changes nothing in the forms table
C23_RejectedStep ==
    (cr' # cr /\ cr'.pc # "idle" /\ ~ValidOwner(cr'.body)) => (forms' = forms /\ nextId' = nextId)

\* the forms table changes only by the insert of a request with a valid
\* owner_email, which adds one form under an identifier that was not there
C23_CreatedStep ==
    forms' # forms =>
        /\ cr.pc = "insert" /\ ValidOwner(cr.body)
        /\ cr.id \notin DOMAIN forms
        /\ DOMAIN forms' = DOMAIN forms \cup {cr.id}
        /\ \A f \in DOMAIN forms : forms'[f] = forms[f]

\* a request with a valid owner_email ends with 201 (500 if the store
\* fails) and its form is in the table; a submission to a created form that
\* the limiter admits and the store takes is answered 200
C23_CreatedState ==
    /\ (cr.pc = "done" /\ ValidOwner(cr.body)) =>
            /\ cr.status = 201 \/ (load.faults /\ cr.status = 500)
            /\ cr.status = 201 => cr.id \in Created
    /\ cr.status = 201 => ValidOwner(cr.body)
    /\ NoOwner => cr.id = ""
    /\ \A r \in Active :
          (req[r].formId \in Created /\ req[r].pc = "done"
             /\ history[req[r].call].allowed /\ ~req[r].storeErr
             /\ req[r].mail = "fulfilled") => Status(r) = 200

\* C23: a create request whose owner_email is missing or contains no '@' is
\* answered 400 (and leaves the forms table unchanged; one with a valid
\* owner_email is answered 201 and adds exactly one form under a fresh
\* identifier, to which submissions are then accepted).
C23_InvalidOwnerRejected == NoOwner => (cr.pc = "done" /\ cr.status = 400)

\* C23, with 400 only for an owner_email that is missing or a string; the
\* rest of the claim as it stands
C23_CreateValidatedStrings ==
    /\ []((NoOwner /\ ~IncludesThrows(cr.body)) => (cr.pc = "done" /\ cr.status = 400))
    /\ [](IncludesThrows(cr.body) => (cr.pc = "done" /\ cr.status = 500 /\ cr.id = ""))
    /\ []C23_CreatedState
    /\ [][C23_RejectedStep /\ C23_CreatedStep]_vars

\* a form was created and a submission to it was stored and answered 200
C23_Accepted ==
    /\ cr.status = 201
    /\ \E r \in Active : req[r].formId = cr.id /\ Status(r) = 200
                            /\ \E i \in RowsOf(req[r].subId) : submissions[i].form_id = cr.id

\* C24: a consume call counts every earlier admission of its key that is
\* not older than the window, one whose age is exactly the window included:
\* the call is admitted only if fewer than maxPoints of them lie at most the
\* window back.
C24_BoundaryCounts ==
    \A i \in 1..Len(history) :
        history[i].allowed
            <=> Cardinality({j \in Earlier(i) : Age(i, j) <= WindowMs}) < MaxRequests

\* the call the code frees at the boundary: admitted with maxPoints earlier
\* admissions at most the window back, the oldest exactly the window back
C24_AdmittedAtBoundary ==
    \E i \in 1..Len(history) :
        /\ history[i].allowed
        /\ Cardinality({j \in Earlier(i) : Age(i, j) <= WindowMs}) = MaxRequests
        /\ \E j \in Earlier(i) : Age(i, j) = WindowMs

\* a step that makes a denied consume call leaves every list as it was
C25_DeniedStep ==
    (Len(history') > Len(history) /\ ~history'[Len(history')].allowed)
        => requests' = requests

\* the denied calls of a key do not count: a call is admitted once fewer
\* than maxPoints admitted calls of its key lie at most the window back,
\* whatever the denied calls before it
C25_DeniedDoNotCount ==
    \A i \in 1..Len(history) :
        Cardinality({j \in Earlier(i) : Age(i, j) <= WindowMs}) < MaxRequests
            => history[i].allowed

\* C25: a denied rateLimiter.consume(key) call records nothing: it leaves
\* the recorded timestamps of key and of every other key unchanged, and
\* however many calls were denied, the key is admitted again once the oldest
\* of its maxPoints recorded admissions has left the window.
C25_DenialRecordsNothing == []C25_DeniedDoNotCount /\ [][C25_DeniedStep]_vars

\* an admission, a denial in its window, and an admission past the window
\* of the first with the denied call at most the window back
C25_Witness ==
    \E i, j, l \in 1..Len(history) :
        /\ i < j /\ j < l
        /\ history[i].key = history[j].key /\ history[j].key = history[l].key
        /\ history[i].allowed /\ ~history[j].allowed /\ history[l].allowed
        /\ Age(l, i) > WindowMs /\ Age(l, j) <= WindowMs
        /\ requests[history[l].key] = <<history[l].time>>

\* the stored rows of the form of row i created in the window that starts
\* with row i
SameWindow(i) ==
    {j \in 1..Len(submissions) :
        /\ submissions[j].form_id = submissions[i].form_id
        /\ submissions[i].created_at <= submissions[j].created_at
        /\ submissions[j].created_at * MsPerSecond
              < submissions[i].created_at * MsPerSecond + WindowMs}

\* C26: for every form, the stored submissions whose creation timestamps
\* fall inside one interval of the length of the window never number more
\* than maxPoints, whatever the interleaving of the requests and the delay
\* between a request's admission and its insert.
C26_StoredWithinCeiling ==
    \A i \in 1..Len(submissions) : Cardinality(SameWindow(i)) <= MaxRequests

\* more rows of one form created in the same second than the ceiling, the
\* admissions of their requests more than the window apart
C26_LateInsert ==
    \E r, q \in Active :
        /\ r # q /\ req[r].formId = req[q].formId
        /\ MaxRequests = 1
        /\ history[req[r].call].allowed /\ history[req[q].call].allowed
        /\ Age(req[q].call, req[r].call) > WindowMs
        /\ \E i \in RowsOf(req[r].subId), j \in RowsOf(req[q].subId) :
              submissions[i].created_at = submissions[j].created_at

\* the answer to a request whose token is not the configured one: 401 and
\* nothing else, whatever the form identifier
C27_WrongTokenState ==
    (rd.pc # "idle" /\ Unauthorized(rd.token)) =>
        /\ rd.pc = "done" /\ rd.status = 401
        /\ rd.rows = <<>>
        /\ rd.total = 0 /\ rd.spamCount = 0 /\ rd.last7Days = 0

\* such a request is answered in the step that takes it, before any lookup;
\* the answer to the same request for any other identifier is the same
C27_WrongTokenStep ==
    (rd' # rd /\ rd.pc \in {"idle", "done"} /\ Unauthorized(rd'.token)) =>
        \A f \in Keys :
            [rd' EXCEPT !.formId = f]
                = [Asked(rd'.kind, f, rd'.token, rd'.spam) EXCEPT !.pc = "done", !.status = 401]

\* C27: on the read endpoints the token check precedes the form lookup: a
\* request with a wrong token gets the same 401 answer whether or not the
\* form identifier exists, so it tells nothing about the existence of a form.
C27_TokenBeforeLookup == []C27_WrongTokenState /\ [][C27_WrongTokenStep]_vars

\* a wrong token and an identifier that is no form: 401, not 404
C27_Witness ==
    /\ rd.pc = "done" /\ rd.formId = "ghost" /\ rd.formId \notin DOMAIN forms
    /\ authToken = Secret /\ rd.token = Wrong
    /\ rd.status = 401

\* every key ever passed to consume has an entry
C28_EveryKeyKept == \A i \in 1..Len(history) : history[i].key \in DOMAIN requests

\* no step removes an entry, and the entry of a key once admitted is never
\* emptied
C28_NoRemoval ==
    \A k \in DOMAIN requests :
        /\ k \in DOMAIN requests'
        /\ requests[k] # <<>> => requests'[k] # <<>>

\* C28: the limiter keeps an entry for every distinct key it has been called
\* with, identifiers of nonexistent forms included: no operation removes a
\* key from rateLimiter.requests, not even after all the timestamps of the
\* key have left the window.
C28_KeysNeverRemoved == []C28_EveryKeyKept /\ [][C28_NoRemoval]_vars

\* an entry all of whose timestamps have left the window
C28_Witness ==
    \E k \in DOMAIN requests :
        /\ requests[k] # <<>>
        /\ \A n \in 1..Len(requests[k]) : ~InWindow(requests[k][n])

\* the number an environment variable stands for: the default when it is
\* unset, N when it holds the decimal text of N
Configured(v, default) ==
    IF v = Undefined THEN default
    ELSE CHOOSE n \in (1..MaxEnvPoints) \cup EnvDurations : Decimal(n) = v.s

\* C29: the ceiling and the window of the limiter come from
\* RATE_LIMIT_POINTS and RATE_LIMIT_DURATION, with 10 requests and 60
\* seconds when a variable is unset and exactly N when it is set to a
\* positive integer N: a call is admitted if and only if fewer admitted
\* calls of its key than the ceiling lie less than the window back.
C29_ConfiguredLimits ==
    /\ MaxRequests = Configured(envPoints, 10)
    /\ WindowMs = Configured(envDuration, 60) * 1000
    /\ \A i \in 1..Len(history) :
          history[i].allowed
              <=> Cardinality({j \in Earlier(i) :
                                  Age(i, j) < Configured(envDuration, 60) * 1000})
                    < Configured(envPoints, 10)

\* both variables unset: ten submissions to a form admitted and the
\* eleventh, within 60 seconds of the first, the first one denied
C29_Witness ==
    /\ envPoints = Undefined /\ envDuration = Undefined
    /\ Len(history) >= 11
    /\ \A i \in 1..10 : history[i].allowed /\ history[i].key = history[11].key
    /\ ~history[11].allowed
    /\ 0 < Age(11, 1) /\ Age(11, 1) < 60 * 1000

====
